---- MODULE Spec2Model ----
(***************************************************************************)
(* Risk aggregation engine of src/ml-models/risk-assessor.py               *)
(* (RiskAssessmentModel): the eight category assessors, the aggregator,    *)
(* the classifier and the recommendation synthesizer; and the endpoint     *)
(* /assess/risk of src/ml-models/api_server.py in front of it.             *)
(*                                                                         *)
(* Numbers.  The code computes in floating point; the model computes the   *)
(* same expressions in exact fixed point.  A score s is held as the        *)
(* integer s * SU, where SU is the least unit in which every score the     *)
(* assessors can produce from the inputs below is a whole number           *)
(* (1/365 for the audit age, 1/100 for a firm reputation, 1/10 and 1/100   *)
(* for the discounts).  Weights and confidences are held in twentieths,    *)
(* volatilities and correlations in hundredths, days and dollars as        *)
(* integers.                                                               *)
(*                                                                         *)
(* Text.  Mitigation and recommendation strings are the code's strings,    *)
(* with the emoji prefixes written in ASCII: "[!]" for the warning sign,   *)
(* "[!!]" for the siren, "[$]" for the money bag, "[time]" for the clock   *)
(* and "[shield]" for the shield, "[ok]" for the check mark.                *)
(*                                                                         *)
(* The explainability map RiskMetrics.factors is write-only output and is  *)
(* left out of the metric records.                                         *)
(***************************************************************************)
EXTENDS Integers, Sequences, FiniteSets, TLC

VARIABLES
    risk_weights,   \* self.risk_weights: category -> weight, in twentieths
    audit_firms,    \* self.audit_firms: firm -> reputation, in hundredths
    now,            \* the day pd.Timestamp.now() falls on
    request,        \* the call in progress: [op, arg]
    response,       \* what the call returned (<<>> until it returns)
    pc,             \* "called" or "returned"
    ML_MODELS_AVAILABLE,
                    \* api_server: whether the import of the models succeeded
    history,        \* the caller's earlier calls: [request, response], oldest first
    other           \* the call of a second thread on the same risk_assessor

vars ==
    << risk_weights, audit_firms, now, request, response, pc,
       ML_MODELS_AVAILABLE, history, other >>

----------------------------------------------------------------------------
(* Fixed point *)

\* one score point, in score units
SU == 2 * 73 * 10000

Pts(n) == n * SU

\* x * 0.k for a one-decimal factor k/10, and x * 0.kk for a two-decimal one
Mul10(x, k) == (x * k) \div 10
Mul100(x, k) == (x * k) \div 100

Min(a, b) == IF a < b THEN a ELSE b
Max(a, b) == IF a > b THEN a ELSE b
Abs(a) == IF a < 0 THEN -a ELSE a

\* dict.get(key, default)
Get(d, k, default) == IF k \in DOMAIN d THEN d[k] ELSE default

\* str.lower() on the spellings the inputs use
Lower(s) ==
    CASE s = "CertiK" -> "certik"
      [] s = "Hacken" -> "hacken"
      [] s = "Chainlink" -> "chainlink"
      [] s = "LayerZero" -> "layerzero"
      [] OTHER -> s

\* format(n, ",.0f") for a natural number n
Pad3(n) ==
    IF n < 10 THEN "00" \o ToString(n)
    ELSE IF n < 100 THEN "0" \o ToString(n)
    ELSE ToString(n)

RECURSIVE Commas(_)
Commas(n) ==
    IF n < 1000 THEN ToString(n)
    ELSE Commas(n \div 1000) \o "," \o Pad3(n % 1000)

----------------------------------------------------------------------------
(* RiskCategory, in the order assess_opportunity runs the assessors *)

Categories ==
    << "smart_contract", "impermanent_loss", "liquidity", "protocol",
       "market", "regulatory", "oracle", "bridge" >>

CategorySet == { Categories[i] : i \in 1..Len(Categories) }

\* __init__: the category weights, in twentieths
InitRiskWeights ==
    [ c \in CategorySet |->
        CASE c = "smart_contract" -> 5
          [] c = "impermanent_loss" -> 4
          [] c = "liquidity" -> 3
          [] c = "protocol" -> 3
          [] c = "market" -> 2
          [] c = "regulatory" -> 1
          [] c = "oracle" -> 1
          [] c = "bridge" -> 1 ]

\* __init__: the audit firms' reputations, in hundredths
InitAuditFirms ==
    [ f \in { "certik", "peckshield", "trail_of_bits", "consensys",
              "openzeppelin", "quantstamp", "hacken" } |->
        CASE f = "certik" -> 90
          [] f = "peckshield" -> 85
          [] f = "trail_of_bits" -> 90
          [] f = "consensys" -> 85
          [] f = "openzeppelin" -> 88
          [] f = "quantstamp" -> 82
          [] f = "hacken" -> 75 ]

\* RiskMetrics(category, score, confidence, factors, mitigation)
RiskMetrics(category, score, confidence, mitigation) ==
    [ category |-> category, score |-> score, confidence |-> confidence,
      mitigation |-> mitigation ]

----------------------------------------------------------------------------
(* assess_smart_contract_risk *)

\* a slip: the firm's name looked up without lower()
ListedFirm_CaseSensitive(audit) == Get(audit, "firm", "") \in DOMAIN audit_firms

\* audit.get('firm', '').lower() in self.audit_firms
ListedFirm(audit) == Lower(Get(audit, "firm", "")) \in DOMAIN audit_firms

\* audit['date'] of a listed firm's entry that has no date: KeyError
AuditRaises(data) ==
    LET audits == Get(data, "audits", <<>>)
    IN  \E i \in 1..Len(audits) :
            ListedFirm(audits[i]) /\ "date" \notin DOMAIN audits[i]

\* age_factor = max(0.5, 1 - audit_age_days / 365), held in 1/730
AgeFactor(audit_age_days) == Max(365, 2 * (365 - audit_age_days))

\* (1 - firm_reputation * age_factor) * 10
AuditScore(audit) ==
    LET firm_reputation == audit_firms[Lower(audit.firm)]
        audit_age_days == now - audit.date
        age_factor == AgeFactor(audit_age_days)
    IN  (73000 - firm_reputation * age_factor) * (SU \div 7300)

\* the loop over audits: min over the listed firms' entries, from 10
RECURSIVE BestAuditScore(_, _, _)
BestAuditScore(audits, i, best_audit_score) ==
    IF i > Len(audits) THEN best_audit_score
    ELSE IF ListedFirm(audits[i]) /\ "date" \in DOMAIN audits[i]
         THEN BestAuditScore(audits, i + 1,
                             Min(best_audit_score, AuditScore(audits[i])))
         ELSE BestAuditScore(audits, i + 1, best_audit_score)

\* a slip: >= for > in the timelock test
Timelocked_Inclusive(data) == Get(data, "timelock_days", 0) >= 2

\* data.get('timelock_days', 0) > 2
Timelocked(data) == Get(data, "timelock_days", 0) > 2

assess_smart_contract_risk(data) ==
    LET audits == Get(data, "audits", <<>>)
        audited == Len(audits) > 0
        s0 == IF audited THEN BestAuditScore(audits, 1, Pts(10)) ELSE Pts(10)
        m0 == IF audited
              THEN IF s0 < Pts(3)
                   THEN << "Multiple reputable audits completed" >>
                   ELSE << >>
              ELSE << "[!] Get protocol audited by reputable firm" >>
        bug_bounty == Get(data, "bug_bounty_size", 0)
        s1 == IF bug_bounty > 1000000 THEN Mul10(s0, 8)
              ELSE IF bug_bounty > 100000 THEN Mul10(s0, 9)
              ELSE s0
        m1 == IF bug_bounty > 1000000
              THEN << "$" \o Commas(bug_bounty) \o " bug bounty program active" >>
              ELSE IF bug_bounty > 100000 THEN << >>
              ELSE << "[!] Consider larger bug bounty program" >>
        contract_age_days == Get(data, "contract_age_days", 0)
        s2 == IF contract_age_days > 365 THEN Mul10(s1, 7)
              ELSE IF contract_age_days > 90 THEN Mul100(s1, 85)
              ELSE s1
        m2 == IF contract_age_days > 365
              THEN << "Contract battle-tested for >1 year" >>
              ELSE IF contract_age_days > 90 THEN << >>
              ELSE << "[!] New contract - wait for battle-testing" >>
        vulnerable == Get(data, "known_vulnerabilities", 0) > 0
        s3 == IF vulnerable THEN Min(Pts(10), s2 + Pts(3)) ELSE s2
        m3 == IF vulnerable THEN << "[!!] Known vulnerabilities detected" >>
              ELSE << >>
        upgradeable == Get(data, "upgradeable", FALSE)
        timelocked == Timelocked(data)
        s4 == IF upgradeable /\ ~timelocked THEN Min(Pts(10), s3 + Pts(2))
              ELSE s3
        m4 == IF upgradeable
              THEN IF timelocked
                   THEN << ToString(data["timelock_days"])
                           \o " day timelock on upgrades" >>
                   ELSE << "[!] Upgradeable with short/no timelock" >>
              ELSE << "Non-upgradeable contract" >>
    IN  RiskMetrics("smart_contract", Min(Pts(10), s4), 17,
                    m0 \o m1 \o m2 \o m3 \o m4)

----------------------------------------------------------------------------
(* assess_impermanent_loss_risk *)

\* a slip: the key's presence tested instead of its value
IsLPPosition_KeyPresent(data) == "is_lp_position" \in DOMAIN data

\* data.get('is_lp_position', False)
IsLPPosition(data) == Get(data, "is_lp_position", FALSE)

\* a slip: max for min
StablePairCap_Max(il_score) == Max(Pts(2), il_score)

\* il_score = min(2, il_score)
StablePairCap(il_score) == Min(Pts(2), il_score)

assess_impermanent_loss_risk(data) ==
    IF ~IsLPPosition(data)
    THEN RiskMetrics("impermanent_loss", 0, 20, << "Not an LP position" >>)
    ELSE
    LET vol1 == Get(data, "token1_volatility", 50)
        vol2 == Get(data, "token2_volatility", 50)
        correlation == Get(data, "token_correlation", 0)
        \* avg_vol * 20 = (vol1 + vol2) / 2 * 20, the volatilities in hundredths
        vol_risk == Min(Pts(10), (vol1 + vol2) * (SU \div 10))
        correlation_risk == (100 - Abs(correlation)) * (SU \div 20)
        divergence_risk == Min(Pts(5), Abs(vol1 - vol2) * (SU \div 10))
        s0 == Mul10(vol_risk, 5) + Mul10(correlation_risk, 3)
              + Mul10(divergence_risk, 2)
        il_protection == Get(data, "il_protection", FALSE)
        s1 == IF il_protection THEN Mul10(s0, 3) ELSE s0
        m1 == IF il_protection THEN << "IL protection available" >> ELSE << >>
        is_stable_pair == Get(data, "is_stable_pair", FALSE)
        s2 == IF is_stable_pair THEN StablePairCap(s1) ELSE s1
        m2 == IF is_stable_pair THEN << "Stable pair - minimal IL risk" >>
              ELSE << >>
        concentrated == Get(data, "concentrated_liquidity", FALSE)
        il_score == IF concentrated THEN Min(Pts(10), Mul10(s2, 15)) ELSE s2
        m3 == IF concentrated
              THEN << "[!] Concentrated liquidity - higher IL risk" >>
              ELSE << >>
        m4 == IF il_score > Pts(7)
              THEN << "[!] Consider single-sided staking instead",
                      "[!] Use IL hedging strategies" >>
              ELSE IF il_score > Pts(4)
              THEN << "Monitor price ratios regularly",
                      "Consider rebalancing if divergence occurs" >>
              ELSE << >>
    IN  RiskMetrics("impermanent_loss", il_score, 16, m1 \o m2 \o m3 \o m4)

----------------------------------------------------------------------------
(* assess_liquidity_risk *)

\* a slip: >= for > in the lock-period test
LockRisk_Inclusive(lock_days) ==
    IF lock_days >= 30
    THEN Min(Pts(10), lock_days * (SU \div 10))
    ELSE 0

\* lock_risk of the lock_period_days, in score units
LockRisk(lock_days) ==
    IF lock_days > 30
    THEN Min(Pts(10), lock_days * (SU \div 10))
    ELSE 0

assess_liquidity_risk(data) ==
    LET tvl == Get(data, "tvl", 0)
        volume_24h == Get(data, "volume_24h", 0)
        unique_lps == Get(data, "unique_liquidity_providers", 0)
        tvl_risk == IF tvl > 10000000 THEN 1
                    ELSE IF tvl > 1000000 THEN 3
                    ELSE IF tvl > 100000 THEN 6
                    ELSE 9
        m0 == IF tvl > 10000000 THEN << "Deep liquidity pool >$10M" >>
              ELSE IF tvl > 100000 THEN << >>
              ELSE << "[!] Low liquidity - difficult exits" >>
        \* turnover = volume_24h / tvl, compared with 1 and with 0.1
        volume_risk == IF tvl > 0
                       THEN IF volume_24h > tvl THEN 2
                            ELSE IF 10 * volume_24h > tvl THEN 4
                            ELSE 7
                       ELSE 10
        m1 == IF tvl > 0
              THEN IF volume_24h > tvl THEN << "High trading activity" >>
                   ELSE IF 10 * volume_24h > tvl THEN << >>
                   ELSE << "[!] Low trading volume" >>
              ELSE << >>
        concentration_risk == IF unique_lps > 100 THEN 2
                              ELSE IF unique_lps > 20 THEN 5
                              ELSE 8
        m2 == IF unique_lps > 100
              THEN << "Well-distributed liquidity providers" >>
              ELSE IF unique_lps > 20 THEN << >>
              ELSE << "[!] Concentrated liquidity providers" >>
        lock_days == Get(data, "lock_period_days", 0)
        lock_risk == LockRisk(lock_days)
        m3 == IF lock_days > 30
              THEN << "[!] " \o ToString(lock_days) \o " day lock period" >>
              ELSE << >>
        liquidity_score == Mul10(Pts(tvl_risk), 4) + Mul10(Pts(volume_risk), 3)
                           + Mul10(Pts(concentration_risk), 2)
                           + Mul10(lock_risk, 1)
    IN  RiskMetrics("liquidity", liquidity_score, 18, m0 \o m1 \o m2 \o m3)

----------------------------------------------------------------------------
(* assess_protocol_risk *)

\* a slip: the sign of the per-exploit term
ExploitRisk_Decreasing(previous_exploits) ==
    IF previous_exploits > 0
    THEN Min(10, 5 - previous_exploits * 2)
    ELSE 0

\* a slip: >= for > in the exploit-count test
ExploitRisk_FromZero(previous_exploits) ==
    IF previous_exploits >= 0
    THEN Min(10, 5 + previous_exploits * 2)
    ELSE 0

\* exploit_risk of the previous_exploits count
ExploitRisk(previous_exploits) ==
    IF previous_exploits > 0
    THEN Min(10, 5 + previous_exploits * 2)
    ELSE 0

assess_protocol_risk(data) ==
    LET protocol_tvl == Get(data, "protocol_tvl", 0)
        protocol_age_days == Get(data, "protocol_age_days", 0)
        team_doxxed == Get(data, "team_doxxed", FALSE)
        tvl_risk == IF protocol_tvl > 1000000000 THEN 1
                    ELSE IF protocol_tvl > 100000000 THEN 3
                    ELSE IF protocol_tvl > 10000000 THEN 5
                    ELSE 8
        m0 == IF protocol_tvl > 1000000000
              THEN << "Blue-chip protocol with >$1B TVL" >>
              ELSE IF protocol_tvl > 10000000 THEN << >>
              ELSE << "[!] Small protocol - higher risk" >>
        age_risk == IF protocol_age_days > 365 THEN 2
                    ELSE IF protocol_age_days > 90 THEN 5
                    ELSE 8
        m1 == IF protocol_age_days > 365
              THEN << "Established protocol >1 year" >>
              ELSE IF protocol_age_days > 90 THEN << >>
              ELSE << "[!] New protocol <3 months" >>
        team_risk == IF team_doxxed THEN 3 ELSE 7
        m2 == IF team_doxxed THEN << "Team is doxxed/known" >>
              ELSE << "[!] Anonymous team" >>
        previous_exploits == Get(data, "previous_exploits", 0)
        exploit_risk == ExploitRisk(previous_exploits)
        m3 == IF previous_exploits > 0
              THEN << "[!!] " \o ToString(previous_exploits)
                      \o " previous exploits" >>
              ELSE << >>
        protocol_score == Mul10(Pts(tvl_risk), 3) + Mul10(Pts(age_risk), 3)
                          + Mul10(Pts(team_risk), 2)
                          + Mul10(Pts(exploit_risk), 2)
    IN  RiskMetrics("protocol", protocol_score, 17, m0 \o m1 \o m2 \o m3)

----------------------------------------------------------------------------
(* assess_market_risk *)

\* x in a list
In(x, list) == \E i \in 1..Len(list) : list[i] = x

assess_market_risk(data) ==
    LET token_types == Get(data, "token_types", << >>)
        type_risk == IF In("stablecoin", token_types) THEN 2
                     ELSE IF In("bluechip", token_types) THEN 4
                     ELSE IF In("altcoin", token_types) THEN 7
                     ELSE 9
        m0 == IF In("stablecoin", token_types)
              THEN << "Stablecoin exposure reduces volatility" >>
              ELSE IF In("bluechip", token_types) \/ In("altcoin", token_types)
              THEN << >>
              ELSE << "[!] High volatility token exposure" >>
        \* in hundredths
        btc_correlation == Abs(Get(data, "btc_correlation", 50))
        correlation_risk == IF btc_correlation > 80 THEN 7
                            ELSE IF btc_correlation > 50 THEN 5
                            ELSE 3
        m1 == IF btc_correlation > 80 THEN << "[!] High correlation with BTC" >>
              ELSE IF btc_correlation > 50 THEN << >>
              ELSE << "Low market correlation" >>
        sensitive == Get(data, "sensitive_to_rates", FALSE)
        macro_risk == IF sensitive THEN 6 ELSE 3
        m2 == IF sensitive THEN << "[!] Sensitive to interest rate changes" >>
              ELSE << >>
        market_score == Mul10(Pts(type_risk), 5) + Mul10(Pts(correlation_risk), 3)
                        + Mul10(Pts(macro_risk), 2)
    IN  RiskMetrics("market", market_score, 15, m0 \o m1 \o m2)

----------------------------------------------------------------------------
(* assess_regulatory_risk *)

assess_regulatory_risk(data) ==
    LET restricted_regions == Get(data, "restricted_regions", << >>)
        us_restricted == In("US", restricted_regions)
        geo_risk == IF us_restricted THEN 7 ELSE 3
        m0 == IF us_restricted THEN << "[!] US restrictions apply" >> ELSE << >>
        kyc_required == Get(data, "kyc_required", FALSE)
        kyc_risk == IF kyc_required THEN 2 ELSE 5
        m1 == IF kyc_required THEN << "KYC compliance required" >> ELSE << >>
        potential_security == Get(data, "potential_security", FALSE)
        security_risk == IF potential_security THEN 8 ELSE 3
        m2 == IF potential_security
              THEN << "[!!] Potential security classification risk" >>
              ELSE << >>
        regulatory_score == Mul10(Pts(geo_risk), 4) + Mul10(Pts(kyc_risk), 2)
                            + Mul10(Pts(security_risk), 4)
    IN  RiskMetrics("regulatory", regulatory_score, 14, m0 \o m1 \o m2)

----------------------------------------------------------------------------
(* assess_oracle_risk *)

\* oracle_scores.get(provider, 9)
OracleScores(provider) ==
    CASE provider = "chainlink" -> 2
      [] provider = "band" -> 4
      [] provider = "dia" -> 5
      [] provider = "api3" -> 5
      [] provider = "pyth" -> 3
      [] provider = "uma" -> 4
      [] provider = "twap" -> 6
      [] provider = "spot" -> 8
      [] provider = "unknown" -> 9
      [] OTHER -> 9

assess_oracle_risk(data) ==
    LET oracle_provider == Get(data, "oracle_provider", "unknown")
        r0 == OracleScores(Lower(oracle_provider))
        m0 == IF r0 <= 3 THEN << "Reputable oracle: " \o oracle_provider >>
              ELSE IF r0 >= 7
              THEN << "[!] Weak price feed: " \o oracle_provider >>
              ELSE << >>
        multi_oracle == Get(data, "multi_oracle", FALSE)
        r1 == IF multi_oracle THEN Mul10(Pts(r0), 6) ELSE Pts(r0)
        m1 == IF multi_oracle
              THEN << "Multiple oracle sources for redundancy" >>
              ELSE << >>
        twap_enabled == Get(data, "twap_enabled", FALSE)
        oracle_risk == IF twap_enabled THEN Mul10(r1, 8) ELSE r1
        m2 == IF twap_enabled
              THEN << "TWAP protection against manipulation" >>
              ELSE << >>
    IN  RiskMetrics("oracle", oracle_risk, 16, m0 \o m1 \o m2)

----------------------------------------------------------------------------
(* assess_bridge_risk *)

\* bridge_scores.get(provider, 9)
BridgeScores(provider) ==
    CASE provider = "native" -> 2
      [] provider = "layerzero" -> 3
      [] provider = "wormhole" -> 4
      [] provider = "axelar" -> 4
      [] provider = "celer" -> 5
      [] provider = "multichain" -> 7
      [] provider = "unknown" -> 9
      [] OTHER -> 9

\* a slip: the key's presence tested instead of its value
UsesBridge_KeyPresent(data) == "uses_bridge" \in DOMAIN data

\* data.get('uses_bridge', False)
UsesBridge(data) == Get(data, "uses_bridge", FALSE)

assess_bridge_risk(data) ==
    IF ~UsesBridge(data)
    THEN RiskMetrics("bridge", 0, 20, << "No bridge required" >>)
    ELSE
    LET bridge_provider == Get(data, "bridge_provider", "unknown")
        r0 == Pts(BridgeScores(Lower(bridge_provider)))
        bridge_tvl == Get(data, "bridge_tvl", 0)
        r1 == IF bridge_tvl > 1000000000 THEN Mul10(r0, 7)
              ELSE IF bridge_tvl < 10000000 THEN Min(Pts(10), Mul10(r0, 15))
              ELSE r0
        m0 == IF bridge_tvl > 1000000000
              THEN << "High-security bridge with >$1B locked" >>
              ELSE IF bridge_tvl < 10000000
              THEN << "[!] Low-security bridge" >>
              ELSE << >>
        hacked == Get(data, "bridge_hacked_before", FALSE)
        bridge_risk == IF hacked THEN Min(Pts(10), r1 + Pts(3)) ELSE r1
        m1 == IF hacked THEN << "[!!] Bridge has been hacked before" >>
              ELSE << >>
    IN  RiskMetrics("bridge", bridge_risk, 15, m0 \o m1)

----------------------------------------------------------------------------
(* calculate_overall_risk *)

(* An overall score is the quotient total_score / total_weight of the two  *)
(* accumulators, held as the pair [n, d] that stands for n / (d * OU):     *)
(* total_weight d is in 1/400 (weight and confidence are twentieths) and   *)
(* total_score n in 1/(80 * SU); every product score * weight * confidence *)
(* of a score the assessors produce is a whole number of those.            *)
OU == SU \div 5

Score(n, d) == [ n |-> n, d |-> d ]

\* the comparisons of an overall score with a whole number of points
ScoreLt(x, points) == x.n < points * OU * x.d
ScoreGt(x, points) == x.n > points * OU * x.d
ScoreEq(x, points) == x.n = points * OU * x.d

\* a slip: the confidence left out of the product
Weighted_IgnoringConfidence(metric) ==
    (metric.score * Get(risk_weights, metric.category, 2) * 20) \div 5

\* metric.score * weight * metric.confidence
Weighted(metric) ==
    (metric.score * Get(risk_weights, metric.category, 2) * metric.confidence)
        \div 5

\* the loop: total_score += score * weight * confidence,
\*           total_weight += weight * confidence
RECURSIVE Totals(_, _, _, _)
Totals(risk_metrics, i, total_score, total_weight) ==
    IF i > Len(risk_metrics)
    THEN [ total_score |-> total_score, total_weight |-> total_weight ]
    ELSE LET metric == risk_metrics[i]
             weight == Get(risk_weights, metric.category, 2)
         IN  Totals(risk_metrics, i + 1,
                    total_score + Weighted(metric),
                    total_weight + weight * metric.confidence)

\* a slip: the metrics of score 0 (the not-applicable categories) skipped
RECURSIVE TotalsOfNonZero(_, _, _, _)
TotalsOfNonZero(risk_metrics, i, total_score, total_weight) ==
    IF i > Len(risk_metrics)
    THEN [ total_score |-> total_score, total_weight |-> total_weight ]
    ELSE LET metric == risk_metrics[i]
             weight == Get(risk_weights, metric.category, 2)
         IN  IF metric.score = 0
             THEN TotalsOfNonZero(risk_metrics, i + 1, total_score,
                                  total_weight)
             ELSE TotalsOfNonZero(risk_metrics, i + 1,
                                  total_score + Weighted(metric),
                                  total_weight + weight * metric.confidence)

calculate_overall_risk_SkippingZero(risk_metrics) ==
    LET t == TotalsOfNonZero(risk_metrics, 1, 0, 0)
    IN  IF t.total_weight > 0
        THEN Score(t.total_score, t.total_weight)
        ELSE Score(5 * OU, 1)

calculate_overall_risk(risk_metrics) ==
    LET t == Totals(risk_metrics, 1, 0, 0)
    IN  IF t.total_weight > 0
        THEN Score(t.total_score, t.total_weight)
        ELSE Score(5 * OU, 1)

----------------------------------------------------------------------------
(* determine_risk_tier, determine_suitability, calculate_max_allocation *)

\* a slip: <= for < in the ladder
determine_risk_tier_Inclusive(overall_score) ==
    IF ~ScoreGt(overall_score, 2) THEN "MINIMAL"
    ELSE IF ~ScoreGt(overall_score, 4) THEN "LOW"
    ELSE IF ~ScoreGt(overall_score, 6) THEN "MEDIUM"
    ELSE IF ~ScoreGt(overall_score, 8) THEN "HIGH"
    ELSE "EXTREME"

determine_risk_tier(overall_score) ==
    IF ScoreLt(overall_score, 2) THEN "MINIMAL"
    ELSE IF ScoreLt(overall_score, 4) THEN "LOW"
    ELSE IF ScoreLt(overall_score, 6) THEN "MEDIUM"
    ELSE IF ScoreLt(overall_score, 8) THEN "HIGH"
    ELSE "EXTREME"

\* a slip: the Degen label left out of the medium-risk profile list
determine_suitability_NotNested(overall_score) ==
    IF ScoreLt(overall_score, 4)
    THEN << "Conservative", "Moderate", "Aggressive", "Degen" >>
    ELSE IF ScoreLt(overall_score, 6)
    THEN << "Moderate", "Aggressive" >>
    ELSE IF ScoreLt(overall_score, 8)
    THEN << "Aggressive", "Degen" >>
    ELSE << "Degen" >>

determine_suitability(overall_score) ==
    IF ScoreLt(overall_score, 4)
    THEN << "Conservative", "Moderate", "Aggressive", "Degen" >>
    ELSE IF ScoreLt(overall_score, 6)
    THEN << "Moderate", "Aggressive", "Degen" >>
    ELSE IF ScoreLt(overall_score, 8)
    THEN << "Aggressive", "Degen" >>
    ELSE << "Degen" >>

\* a slip: <= for < in the ladder
calculate_max_allocation_Inclusive(overall_score) ==
    IF ~ScoreGt(overall_score, 2) THEN 40
    ELSE IF ~ScoreGt(overall_score, 4) THEN 25
    ELSE IF ~ScoreGt(overall_score, 6) THEN 15
    ELSE IF ~ScoreGt(overall_score, 8) THEN 8
    ELSE 3

calculate_max_allocation(overall_score) ==
    IF ScoreLt(overall_score, 2) THEN 40
    ELSE IF ScoreLt(overall_score, 4) THEN 25
    ELSE IF ScoreLt(overall_score, 6) THEN 15
    ELSE IF ScoreLt(overall_score, 8) THEN 8
    ELSE 3

----------------------------------------------------------------------------
(* generate_recommendations *)

\* sorted(risk_metrics, key=score, reverse=True): stable, equal scores keep
\* their order
\* a slip: an unstable sort, a metric put before those of equal score
InsertByScore_Unstable(sorted, metric) ==
    LET before == { i \in 1..Len(sorted) : sorted[i].score > metric.score }
        k == Cardinality(before)
    IN  SubSeq(sorted, 1, k) \o << metric >>
        \o SubSeq(sorted, k + 1, Len(sorted))

InsertByScore(sorted, metric) ==
    LET ahead == Cardinality({ i \in 1..Len(sorted) :
                                 sorted[i].score >= metric.score })
    IN  SubSeq(sorted, 1, ahead) \o << metric >>
        \o SubSeq(sorted, ahead + 1, Len(sorted))

RECURSIVE SortedByScore(_, _, _)
SortedByScore(risk_metrics, i, sorted) ==
    IF i > Len(risk_metrics) THEN sorted
    ELSE SortedByScore(risk_metrics, i + 1,
                       InsertByScore(sorted, risk_metrics[i]))

\* for metric in sorted_metrics[:3]: if metric.score > 6: extend(mitigation[:2])
RECURSIVE TopMitigations(_, _)
TopMitigations(sorted_metrics, i) ==
    IF i > Min(3, Len(sorted_metrics)) THEN << >>
    ELSE LET metric == sorted_metrics[i]
             top == IF metric.score > Pts(6)
                    THEN SubSeq(metric.mitigation, 1,
                                Min(2, Len(metric.mitigation)))
                    ELSE << >>
         IN  top \o TopMitigations(sorted_metrics, i + 1)

\* a slip: if for elif, both cautions can be appended
EntryTiming_Both(overall_score, data) ==
    (IF ScoreGt(overall_score, 7)
     THEN << "[time] Consider waiting for risk factors to improve" >>
     ELSE << >>)
    \o (IF Get(data, "apy", 0) > 100
        THEN << "[time] Enter gradually to avoid FOMO" >>
        ELSE << >>)

\* the entry-timing lines: if overall_score > 7 ... elif apy > 100 ...
EntryTiming(overall_score, data) ==
    IF ScoreGt(overall_score, 7)
    THEN << "[time] Consider waiting for risk factors to improve" >>
    ELSE IF Get(data, "apy", 0) > 100
    THEN << "[time] Enter gradually to avoid FOMO" >>
    ELSE << >>

generate_recommendations(risk_metrics, data) ==
    LET sorted_metrics == SortedByScore(risk_metrics, 1, << >>)
        overall_score == calculate_overall_risk(risk_metrics)
        max_allocation == calculate_max_allocation(overall_score)
        sizing == << "[$] Maximum allocation: " \o ToString(max_allocation)
                     \o "% of portfolio" >>
        timing == EntryTiming(overall_score, data)
        hedging == IF \E i \in 1..Len(risk_metrics) :
                         /\ risk_metrics[i].category = "impermanent_loss"
                         /\ risk_metrics[i].score > Pts(6)
                   THEN << "[shield] Consider IL hedging strategies or insurance" >>
                   ELSE << >>
    IN  TopMitigations(sorted_metrics, 1) \o sizing \o timing \o hedging

----------------------------------------------------------------------------
(* assess_opportunity *)

\* the eight assessors, run in order on the same record
AssessAll(data) ==
    << assess_smart_contract_risk(data),
       assess_impermanent_loss_risk(data),
       assess_liquidity_risk(data),
       assess_protocol_risk(data),
       assess_market_risk(data),
       assess_regulatory_risk(data),
       assess_oracle_risk(data),
       assess_bridge_risk(data) >>

\* the exception a subscript with a missing key raises
KeyError(key) == [ type |-> "KeyError", key |-> key ]

\* the result, or the exception the first assessor raises
assess_opportunity(data) ==
    IF AuditRaises(data)
    THEN [ raised |-> TRUE, error |-> KeyError("date") ]
    ELSE
    LET risk_metrics == AssessAll(data)
        overall_score == calculate_overall_risk(risk_metrics)
    IN  [ raised |-> FALSE,
          overall_score |-> overall_score,
          risk_tier |-> determine_risk_tier(overall_score),
          risk_metrics |-> [ c \in { risk_metrics[i].category :
                                        i \in 1..Len(risk_metrics) } |->
                               LET i == CHOOSE j \in 1..Len(risk_metrics) :
                                          risk_metrics[j].category = c
                               IN  risk_metrics[i] ],
          recommendations |-> generate_recommendations(risk_metrics, data),
          suitable_for |-> determine_suitability(overall_score),
          max_allocation_percentage |-> calculate_max_allocation(overall_score) ]

----------------------------------------------------------------------------
(* api_server: POST /assess/risk *)

\* a slip: repr(e) for str(e)
Str_Repr(e) == e.type \o "('" \o e.key \o "')"

\* str(e): the text of a KeyError is the repr of its key
Str(e) == "'" \o e.key \o "'"

HTTPException(status_code, detail) ==
    [ status_code |-> status_code, detail |-> detail ]

\* a returned body, sent with status 200
Ok(body) == [ status_code |-> 200, body |-> body ]

\* the mock branch, taken when the models could not be imported
MockAssessment(pool_data) ==
    LET tvl == Get(pool_data, "tvl", 0)
        audit_status == Get(pool_data, "audit_status", "unaudited")
        r0 == IF tvl < 100000 THEN 5 + 3
              ELSE IF tvl < 1000000 THEN 5 + 1
              ELSE 5
        risk_score == IF audit_status = "unaudited" THEN r0 + 2 ELSE r0
    IN  [ success |-> TRUE,
          overall_score |-> Score(Min(risk_score, 10) * OU, 1),
          risk_tier |-> IF risk_score < 4 THEN "LOW"
                        ELSE IF risk_score < 7 THEN "MEDIUM"
                        ELSE "HIGH",
          recommendations |->
            << "[$] Maximum allocation: "
                 \o ToString(IF risk_score < 7 THEN 15 ELSE 5)
                 \o "% of portfolio",
               IF risk_score > 6 THEN "[time] Monitor position daily"
               ELSE "[ok] Stable opportunity" >>,
          suitable_for |-> IF risk_score < 7 THEN << "Aggressive", "Degen" >>
                           ELSE << "Degen" >>,
          max_allocation_percentage |-> IF risk_score < 7 THEN 15 ELSE 5,
          mock |-> TRUE ]

\* {**request.pool_data, "chain": request.chain, "protocol": request.protocol}
OpportunityData(req) ==
    [ chain |-> req.chain, protocol |-> req.protocol ] @@ req.pool_data

\* what the endpoint makes of the result, or of the exception raised
RiskResponse(result) ==
    IF result.raised
    THEN HTTPException(500, Str(result.error))
    ELSE Ok([ success |-> TRUE,
              overall_score |-> result.overall_score,
              risk_tier |-> result.risk_tier,
              recommendations |-> result.recommendations,
              suitable_for |-> result.suitable_for,
              max_allocation_percentage |->
                  result.max_allocation_percentage ])

assess_risk(req) ==
    IF ~ML_MODELS_AVAILABLE
    THEN Ok(MockAssessment(req.pool_data))
    ELSE RiskResponse(assess_opportunity(OpportunityData(req)))

----------------------------------------------------------------------------
(* Inputs *)

\* the longest audits list, the largest previous_exploits count and the
\* largest whole score handed to the classifier
MaxAudits == 2
MaxExploits == 3
MaxPoints == 11

\* the days the clock runs and the calls one caller makes
MaxDays == 1
MaxCalls == 2

\* a record with no field
Empty == << >>

\* the field absent, or present with one of the values
Opt(field, values) == { Empty } \cup { field :> v : v \in values }

\* audit entries: dated long ago, recently and after now; an unlisted firm;
\* an entry without a date and one without a firm
AuditEntries ==
    { [ firm |-> f, date |-> d ] : f \in { "CertiK", "hacken" },
                                     d \in { -400, -20, 400 } }
    \cup { [ firm |-> "acme", date |-> -20 ],
           [ firm |-> "certik" ],
           [ date |-> -20 ] }

RECURSIVE SeqsUpTo(_, _)
SeqsUpTo(S, n) ==
    IF n = 0 THEN { << >> }
    ELSE LET shorter == SeqsUpTo(S, n - 1)
         IN  shorter \cup { Append(q, x) : q \in shorter, x \in S }

SmartContractInputs ==
    { a @@ b @@ c @@ d @@ e @@ f :
        a \in Opt("audits", SeqsUpTo(AuditEntries, MaxAudits)),
        b \in Opt("bug_bounty_size", { 100001, 1000001 }),
        c \in Opt("contract_age_days", { 91, 366 }),
        d \in Opt("known_vulnerabilities", { 1 }),
        e \in Opt("upgradeable", { TRUE }),
        f \in Opt("timelock_days", { 2, 3 }) }

ImpermanentLossInputs ==
    { a @@ b @@ c @@ d @@ e @@ f @@ g :
        a \in Opt("is_lp_position", { TRUE, FALSE }),
        b \in Opt("token1_volatility", { 0, 20, 100 }),
        c \in Opt("token2_volatility", { 0, 60 }),
        d \in Opt("token_correlation", { -100, 50 }),
        e \in Opt("il_protection", { TRUE }),
        f \in Opt("is_stable_pair", { TRUE }),
        g \in Opt("concentrated_liquidity", { TRUE }) }

LiquidityInputs ==
    { a @@ b @@ c @@ d :
        a \in Opt("tvl", { 100000, 100001, 5000000, 10000000, 10000001 }),
        b \in Opt("volume_24h", { 500000, 20000000 }),
        c \in Opt("unique_liquidity_providers", { 21, 101 }),
        d \in Opt("lock_period_days", { 0, 20, 30, 31, 100, 200 }) }

ProtocolInputs ==
    { a @@ b @@ c @@ d :
        a \in Opt("protocol_tvl",
                  { 5000000, 10000001, 100000001, 1000000001 }),
        b \in Opt("protocol_age_days", { 30, 91, 366 }),
        c \in Opt("team_doxxed", { TRUE, FALSE }),
        d \in Opt("previous_exploits", 0..MaxExploits) }

MarketInputs ==
    { a @@ b @@ c :
        a \in Opt("token_types",
                  { << >>, << "stablecoin" >>, << "bluechip" >>,
                    << "altcoin" >>, << "memecoin" >>,
                    << "altcoin", "stablecoin" >>,
                    << "memecoin", "bluechip" >> }),
        b \in Opt("btc_correlation", { -90, 50, 60, 81 }),
        c \in Opt("sensitive_to_rates", { TRUE, FALSE }) }

RegulatoryInputs ==
    { a @@ b @@ c :
        a \in Opt("restricted_regions",
                  { << >>, << "US" >>, << "EU" >>, << "EU", "US" >> }),
        b \in Opt("kyc_required", { TRUE, FALSE }),
        c \in Opt("potential_security", { TRUE, FALSE }) }

OracleInputs ==
    { a @@ b @@ c :
        a \in Opt("oracle_provider",
                  { "chainlink", "Chainlink", "band", "dia", "api3", "pyth",
                    "uma", "twap", "spot", "unknown", "acme" }),
        b \in Opt("multi_oracle", { TRUE, FALSE }),
        c \in Opt("twap_enabled", { TRUE, FALSE }) }

BridgeInputs ==
    { a @@ b @@ c @@ d :
        a \in Opt("uses_bridge", { TRUE, FALSE }),
        b \in Opt("bridge_provider",
                  { "native", "LayerZero", "wormhole", "axelar", "celer",
                    "multichain", "unknown", "acme" }),
        c \in Opt("bridge_tvl", { 5000000, 10000000, 1000000001 }),
        d \in Opt("bridge_hacked_before", { TRUE }) }

\* the high-risk scenario record of the specification's section 8
UnauditedMemecoin ==
    [ tvl |-> 5000000, audits |-> << >>, bug_bounty_size |-> 0,
      contract_age_days |-> 30, protocol_tvl |-> 5000000,
      protocol_age_days |-> 30, team_doxxed |-> FALSE,
      is_lp_position |-> FALSE, uses_bridge |-> FALSE,
      oracle_provider |-> "unknown", token_types |-> << "memecoin" >> ]

\* deep pools of blue-chip protocols with one audit by a listed firm and a
\* chainlink feed (the low-risk scenario of section 8 has the audit recent;
\* here it is dated long ago, recently, today or after now)
ListedFirms ==
    { "certik", "peckshield", "trail_of_bits", "consensys", "openzeppelin",
      "quantstamp", "hacken", "CertiK" }

BlueChipInputs ==
    { [ tvl |-> t, protocol_tvl |-> p, protocol_age_days |-> a,
        team_doxxed |-> TRUE,
        audits |-> << [ firm |-> f, date |-> d ] >>,
        oracle_provider |-> "chainlink" ] :
        t \in { 10000001, 50000000 }, p \in { 1000000001, 2000000000 },
        a \in { 366, 3000 }, f \in ListedFirms,
        d \in { -400, -90, -30, 0, 400 } }

\* records that mix the categories: a low-risk and a high-risk setting of
\* each assessor's fields, with and without a nominal APY
MixedInputs ==
    { a @@ b @@ c @@ d @@ e @@ f @@ g @@ h @@ i :
        a \in { [ audits |-> << [ firm |-> "certik", date |-> -20 ] >>,
                  contract_age_days |-> 366 ],
                [ known_vulnerabilities |-> 1, upgradeable |-> TRUE ] },
        b \in { [ is_lp_position |-> TRUE, is_stable_pair |-> TRUE ],
                [ is_lp_position |-> TRUE, token1_volatility |-> 100,
                  concentrated_liquidity |-> TRUE ],
                [ is_lp_position |-> FALSE, token1_volatility |-> 100,
                  concentrated_liquidity |-> TRUE ] },
        c \in { [ tvl |-> 10000001, volume_24h |-> 20000000,
                  unique_liquidity_providers |-> 101 ],
                [ tvl |-> 0, lock_period_days |-> 200 ] },
        d \in { [ protocol_tvl |-> 1000000001, protocol_age_days |-> 366,
                  team_doxxed |-> TRUE ],
                [ previous_exploits |-> 3 ] },
        e \in { [ token_types |-> << "stablecoin" >>, btc_correlation |-> 50 ],
                [ btc_correlation |-> 81, sensitive_to_rates |-> TRUE ] },
        f \in { [ kyc_required |-> TRUE ],
                [ restricted_regions |-> << "US" >>,
                  potential_security |-> TRUE ] },
        g \in { [ oracle_provider |-> "chainlink", multi_oracle |-> TRUE ],
                [ oracle_provider |-> "spot" ] },
        h \in { [ uses_bridge |-> FALSE, bridge_hacked_before |-> TRUE ],
                [ uses_bridge |-> TRUE, bridge_hacked_before |-> TRUE ] },
        i \in Opt("apy", { 50, 101 }) }

\* the opportunity records handed to assess_opportunity
Records ==
    SmartContractInputs \cup ImpermanentLossInputs \cup LiquidityInputs
    \cup ProtocolInputs \cup MarketInputs \cup RegulatoryInputs
    \cup OracleInputs \cup BridgeInputs
    \cup { UnauditedMemecoin } \cup BlueChipInputs \cup MixedInputs

\* the confidence each assessor gives its metric when its category applies
OwnConfidence ==
    [ c \in CategorySet |->
        CASE c = "smart_contract" -> 17
          [] c = "impermanent_loss" -> 16
          [] c = "liquidity" -> 18
          [] c = "protocol" -> 17
          [] c = "market" -> 15
          [] c = "regulatory" -> 14
          [] c = "oracle" -> 16
          [] c = "bridge" -> 15 ]

\* confidences of the metric lists handed to calculate_overall_risk: the
\* assessors' own, those with the two not-applicable categories at 1.0, all
\* zero, and the assessors' own with one category at zero
ConfidenceVectors ==
    { OwnConfidence,
      [ c \in CategorySet |->
          IF c \in { "impermanent_loss", "bridge" } THEN 20
          ELSE OwnConfidence[c] ],
      [ c \in CategorySet |-> 0 ] }
    \cup { [ c \in CategorySet |-> IF c = z THEN 0 ELSE OwnConfidence[c] ] :
             z \in CategorySet }

\* their scores, in whole points: every category at 0 or 10, or all equal
ScoreVectors ==
    [ CategorySet -> { 0, 10 } ]
    \cup { [ c \in CategorySet |-> s ] : s \in 0..10 }

MetricLists ==
    { [ i \in 1..Len(Categories) |->
          RiskMetrics(Categories[i], Pts(sv[Categories[i]]),
                      cv[Categories[i]], << >>) ] :
        sv \in ScoreVectors, cv \in ConfidenceVectors }

\* the overall scores handed to the classifier: every half point from -1 to
\* MaxPoints, and the scores just below and just above each breakpoint
OverallScores ==
    { Score(k * (OU \div 2), 1) : k \in -2..(2 * MaxPoints) }
    \cup { Score(t * OU + e, 1) : t \in { 2, 4, 6, 8 }, e \in { -1, 1 } }

\* the pool_data of the requests posted to /assess/risk: pools of each
\* size bracket of the mock branch, audited or not, the high-risk scenario,
\* a pool with its own "chain" entry and pools whose audit entry has no date
PoolData ==
    { a @@ b @@ c :
        a \in Opt("tvl", { 50000, 500000, 5000000 }),
        b \in Opt("audit_status", { "audited", "unaudited" }),
        c \in Opt("audits", { << >>,
                              << [ firm |-> "certik", date |-> -20 ] >>,
                              << [ firm |-> "certik" ] >>,
                              << [ firm |-> "hacken", date |-> -20 ],
                                 [ firm |-> "CertiK" ] >> }) }
    \cup { UnauditedMemecoin,
           [ chain |-> "solana", tvl |-> 10000001 ] }

\* the records of repeated calls: no field, a listed firm's recent audit, an
\* unlisted firm's audit, a listed firm's audit without its date
CallRecords ==
    { Empty,
      [ audits |-> << [ firm |-> "certik", date |-> -20 ] >> ],
      [ audits |-> << [ firm |-> "acme", date |-> -20 ] >> ],
      [ audits |-> << [ firm |-> "certik" ] >> ] }

\* the records of the second thread's call
OtherRecords ==
    { UnauditedMemecoin,
      [ audits |-> << [ firm |-> "certik", date |-> -20 ] >> ] }

RiskAssessmentRequests ==
    { [ pool_data |-> d, chain |-> "ethereum", protocol |-> "aave" ] :
        d \in PoolData }

----------------------------------------------------------------------------
(* The engine as a service: a call arrives with its argument, the method    *)
(* runs to completion and returns.                                          *)

\* no call in progress on the second thread
Idle == [ pc |-> "idle" ]

\* a call made on the imported risk_assessor itself
DirectCall ==
    \/ \E data \in Records :
            request = [ op |-> "assess_opportunity", arg |-> data ]
    \/ \E risk_metrics \in MetricLists :
            request = [ op |-> "calculate_overall_risk", arg |-> risk_metrics ]
    \/ \E overall_score \in OverallScores :
            \E op \in { "determine_risk_tier", "determine_suitability",
                        "calculate_max_allocation" } :
                request = [ op |-> op, arg |-> overall_score ]

Init ==
    /\ risk_weights = InitRiskWeights
    /\ audit_firms = InitAuditFirms
    /\ now = 0
    /\ pc = "called"
    /\ response = << >>
    /\ history = << >>
    /\ other = Idle
    /\ \/ /\ ML_MODELS_AVAILABLE \in BOOLEAN
          /\ \E req \in RiskAssessmentRequests :
                request = [ op |-> "assess_risk", arg |-> req ]
       \/ /\ ML_MODELS_AVAILABLE = TRUE
          /\ DirectCall

\* a slip: the default of a missing field written into the caller's record
\* (opportunity_data.setdefault('audits', []))
Return_SettingDefault(op, value) ==
    /\ pc = "called"
    /\ request.op = op
    /\ response' = value
    /\ pc' = "returned"
    /\ request' = IF op = "assess_opportunity"
                  THEN [ request EXCEPT !.arg = @ @@ [ audits |-> << >> ] ]
                  ELSE request
    /\ UNCHANGED << risk_weights, audit_firms, now,
                    ML_MODELS_AVAILABLE, history, other >>

Return(op, value) ==
    /\ pc = "called"
    /\ request.op = op
    /\ response' = value
    /\ pc' = "returned"
    /\ UNCHANGED << risk_weights, audit_firms, now, request,
                    ML_MODELS_AVAILABLE, history, other >>

AssessRisk ==
    Return("assess_risk", assess_risk(request.arg))

AssessOpportunity ==
    Return("assess_opportunity", assess_opportunity(request.arg))

CalculateOverallRisk ==
    Return("calculate_overall_risk", calculate_overall_risk(request.arg))

DetermineRiskTier ==
    Return("determine_risk_tier", determine_risk_tier(request.arg))

DetermineSuitability ==
    Return("determine_suitability", determine_suitability(request.arg))

CalculateMaxAllocation ==
    Return("calculate_max_allocation", calculate_max_allocation(request.arg))

Next ==
    \/ AssessRisk
    \/ AssessOpportunity
    \/ CalculateOverallRisk
    \/ DetermineRiskTier
    \/ DetermineSuitability
    \/ CalculateMaxAllocation

Spec == Init /\ [][Next]_vars

----------------------------------------------------------------------------
(* Repeated and concurrent calls of assess_opportunity on the global        *)
(* risk_assessor, while the clock runs.                                     *)

InitCalls ==
    /\ risk_weights = InitRiskWeights
    /\ audit_firms = InitAuditFirms
    /\ now = 0
    /\ pc = "called"
    /\ response = << >>
    /\ history = << >>
    /\ other = Idle
    /\ ML_MODELS_AVAILABLE = TRUE
    /\ \E data \in CallRecords :
            request = [ op |-> "assess_opportunity", arg |-> data ]

\* a day passes
Tick ==
    /\ now < MaxDays
    /\ now' = now + 1
    /\ UNCHANGED << risk_weights, audit_firms, request, response, pc,
                    ML_MODELS_AVAILABLE, history, other >>

\* the caller, holding a result, calls assess_opportunity again
CallAgain ==
    /\ pc = "returned"
    /\ Len(history) + 1 < MaxCalls
    /\ history' = Append(history,
                         [ request |-> request, response |-> response ])
    /\ \E data \in CallRecords :
            request' = [ op |-> "assess_opportunity", arg |-> data ]
    /\ response' = << >>
    /\ pc' = "called"
    /\ UNCHANGED << risk_weights, audit_firms, now, ML_MODELS_AVAILABLE,
                    other >>

\* the second thread calls assess_opportunity
OtherCall ==
    /\ other = Idle
    /\ \E data \in OtherRecords :
            other' = [ pc |-> "called",
                       request |-> [ op |-> "assess_opportunity",
                                     arg |-> data ] ]
    /\ UNCHANGED << risk_weights, audit_firms, now, request, response, pc,
                    ML_MODELS_AVAILABLE, history >>

\* its call returns
OtherReturn ==
    /\ other.pc = "called"
    /\ other' = [ pc |-> "returned", request |-> other.request,
                  response |-> assess_opportunity(other.request.arg) ]
    /\ UNCHANGED << risk_weights, audit_firms, now, request, response, pc,
                    ML_MODELS_AVAILABLE, history >>

NextCalls ==
    \/ AssessOpportunity
    \/ Tick
    \/ CallAgain
    \/ OtherCall
    \/ OtherReturn

SpecCalls == InitCalls /\ [][NextCalls]_vars

----------------------------------------------------------------------------
(* Properties *)

Returned(op) == pc = "returned" /\ request.op = op

\* assess_opportunity returned a result
Assessed == Returned("assess_opportunity") /\ ~response.raised

RECURSIVE Sum(_, _)
Sum(f, n) == IF n = 0 THEN 0 ELSE f[n] + Sum(f, n - 1)

Range(seq) == { seq[i] : i \in 1..Len(seq) }

\* a <= b, for two overall scores
ScoreLeq(a, b) == a.n * b.d <= b.n * a.d

\* a and b lie on the same side of every breakpoint
SameSide(a, b, breakpoints) ==
    \A t \in breakpoints : ScoreLt(a, t) <=> ScoreLt(b, t)

\* C1: for every input record, each of the 8 metrics assess_opportunity
\* returns has its score in [0, 10] and its confidence in [0, 1].
C1_MetricsInRange ==
    Assessed =>
        \A c \in CategorySet :
            LET metric == response.risk_metrics[c]
            IN  /\ 0 <= metric.score /\ metric.score <= Pts(10)
                /\ 0 <= metric.confidence /\ metric.confidence <= 20

\* C2 (the part on assess_opportunity): the overall score assess_opportunity
\* returns is in [0, 10] for all inputs.
C2_OverallInRange ==
    Assessed =>
        /\ ~ScoreLt(response.overall_score, 0)
        /\ ~ScoreGt(response.overall_score, 10)

\* the weight table as C3 states it, in twentieths
C3_Weights ==
    [ c \in CategorySet |->
        CASE c = "smart_contract" -> 5      \* 0.25
          [] c = "impermanent_loss" -> 4    \* 0.20
          [] c = "liquidity" -> 3           \* 0.15
          [] c = "protocol" -> 3            \* 0.15
          [] c = "market" -> 2              \* 0.10
          [] c = "regulatory" -> 1          \* 0.05
          [] c = "oracle" -> 1              \* 0.05
          [] c = "bridge" -> 1 ]            \* 0.05

\* C3: the weights sum to 1.0, and calculate_overall_risk returns
\* sum(score_i * weight_i * confidence_i) / sum(weight_i * confidence_i)
\* over the 8 category metrics, or 5.0 when that denominator is zero.  (The
\* scores handed in are whole points p_i; the result n / (d * OU) equals
\* P / D for P = sum(p_i * w_i * c_i) and D = sum(w_i * c_i), both in 1/400.)
C3_WeightedAverage ==
    /\ Sum([ i \in 1..Len(Categories) |-> risk_weights[Categories[i]] ],
           Len(Categories)) = 20
    /\ Returned("calculate_overall_risk") =>
        LET metrics == request.arg
            P == Sum([ i \in 1..Len(metrics) |->
                        (metrics[i].score \div SU)
                        * C3_Weights[metrics[i].category]
                        * metrics[i].confidence ], Len(metrics))
            D == Sum([ i \in 1..Len(metrics) |->
                        C3_Weights[metrics[i].category]
                        * metrics[i].confidence ], Len(metrics))
        IN  IF D = 0 THEN ScoreEq(response, 5)
            ELSE response.d = D /\ response.n = P * OU

\* smart-contract at 10 and every other category at 0, under the assessors'
\* own confidences: 10 * 0.25 * 0.85 / 0.8225
C3_Witness ==
    /\ Returned("calculate_overall_risk")
    /\ \A i \in 1..Len(request.arg) :
        /\ request.arg[i].confidence = OwnConfidence[Categories[i]]
        /\ request.arg[i].score = IF i = 1 THEN Pts(10) ELSE 0
    /\ response.d = 329
    /\ response.n = 850 * OU

C4_Tiers == << "MINIMAL", "LOW", "MEDIUM", "HIGH", "EXTREME" >>

\* the tier of the ladder <2, <4, <6, <8, else: one step up for every
\* breakpoint the score has reached
C4_Ladder(overall_score) ==
    C4_Tiers[1 + Cardinality({ t \in { 2, 4, 6, 8 } :
                                 ~ScoreLt(overall_score, t) })]

\* C4: determine_risk_tier maps every overall score through the ladder
\* <2 MINIMAL, <4 LOW, <6 MEDIUM, <8 HIGH, otherwise EXTREME (standalone and
\* inside assess_opportunity); a score of exactly 4.0 yields MEDIUM.
C4_TierLadder ==
    /\ Returned("determine_risk_tier") =>
        /\ response = C4_Ladder(request.arg)
        /\ ScoreEq(request.arg, 4) => response = "MEDIUM"
    /\ Assessed => response.risk_tier = C4_Ladder(response.overall_score)

C4_Witness ==
    /\ Returned("determine_risk_tier")
    /\ ScoreEq(request.arg, 4)
    /\ response = "MEDIUM"

C5_Allocations == << 40, 25, 15, 8, 3 >>

C5_Profiles ==
    << << "Conservative", "Moderate", "Aggressive", "Degen" >>,
       << "Conservative", "Moderate", "Aggressive", "Degen" >>,
       << "Moderate", "Aggressive", "Degen" >>,
       << "Aggressive", "Degen" >>,
       << "Degen" >> >>

\* the three ladders return, for a score exactly at the k-th breakpoint
\* (2, 4, 6, 8), the entry k + shift of their value lists
C5_AtBoundary(shift) ==
    \A k \in 1..4 :
        (pc = "returned" /\ request.op \in { "determine_risk_tier",
                "determine_suitability", "calculate_max_allocation" }
            /\ ScoreEq(request.arg, 2 * k)) =>
            response = CASE request.op = "determine_risk_tier" ->
                              C4_Tiers[k + shift]
                         [] request.op = "determine_suitability" ->
                              C5_Profiles[k + shift]
                         [] request.op = "calculate_max_allocation" ->
                              C5_Allocations[k + shift]

\* C5 as stated: a score exactly equal to a boundary value (2, 4, 6 or 8) is
\* classified into the lower-risk of the two adjacent tiers.
C5_BoundaryIsLowerRisk == C5_AtBoundary(0)

\* C5 as amended: a score exactly equal to a boundary value is classified
\* into the higher-risk of the two adjacent tiers (2 LOW / 25, 4 MEDIUM / 15,
\* 6 HIGH / 8, 8 EXTREME / 3; the profile lists step at 4, 6 and 8).
C5_BoundaryIsHigherRisk == C5_AtBoundary(1)

C5_Witness ==
    /\ Returned("calculate_max_allocation")
    /\ ScoreEq(request.arg, 6)
    /\ response = 8

\* for a <= b: allocation(a) >= allocation(b), the profiles of b are among
\* those of a; the allocation is one of the five ceilings; profiles and
\* allocation are the same for two scores that no breakpoint separates
C6_Monotone(profile_breakpoints, allocation_breakpoints) ==
    /\ Returned("calculate_max_allocation") =>
        /\ response \in { 40, 25, 15, 8, 3 }
        /\ \A a \in OverallScores :
            /\ ScoreLeq(a, request.arg) =>
                calculate_max_allocation(a) >= response
            /\ SameSide(a, request.arg, allocation_breakpoints) =>
                calculate_max_allocation(a) = response
    /\ Returned("determine_suitability") =>
        \A a \in OverallScores :
            /\ ScoreLeq(a, request.arg) =>
                Range(response) \subseteq Range(determine_suitability(a))
            /\ SameSide(a, request.arg, profile_breakpoints) =>
                determine_suitability(a) = response

\* C6 as stated: both functions are monotone and change value only at the
\* breakpoints 4, 6 and 8.
C6_ChangeOnlyAt468 == C6_Monotone({ 4, 6, 8 }, { 4, 6, 8 })

\* C6 as amended: both functions are monotone; determine_suitability changes
\* value only at 4, 6 and 8, calculate_max_allocation only at 2, 4, 6 and 8.
C6_ChangeOnlyAtBreakpoints == C6_Monotone({ 4, 6, 8 }, { 2, 4, 6, 8 })

\* the allocation at 3.0 is 25, no longer the 40 of the scores below 2
C6_Witness ==
    /\ Returned("calculate_max_allocation")
    /\ ScoreEq(request.arg, 3)
    /\ response = 25
    /\ calculate_max_allocation(Score(OU, 1)) = 40

\* C7 as stated: the unaudited-memecoin record yields a tier in
\* {HIGH, EXTREME} and a maximum allocation of at most 8.
C7_MemecoinIsHighRisk ==
    (Assessed /\ request.arg = UnauditedMemecoin) =>
        /\ response.risk_tier \in { "HIGH", "EXTREME" }
        /\ response.max_allocation_percentage <= 8

\* C7 as amended: the unaudited-memecoin record yields the tier MEDIUM and a
\* maximum allocation of 15 (its overall score is 1.8024 / 0.35 = 5.15).
C7_MemecoinIsMedium ==
    (Assessed /\ request.arg = UnauditedMemecoin) =>
        /\ response.risk_tier = "MEDIUM"
        /\ response.max_allocation_percentage = 15
        /\ response.overall_score = Score(18024 * (OU \div 10), 350)

C7_Witness ==
    /\ Assessed
    /\ request.arg = UnauditedMemecoin
    /\ response.risk_metrics["smart_contract"].score = Pts(10)
    /\ response.risk_metrics["impermanent_loss"].score = 0

\* a blue-chip record: exactly the six fields, a pool above $10M, a protocol
\* above $1B and older than a year, a doxxed team, one audit by a listed
\* firm dated within the 90 days before now, chainlink
C8_BlueChip(data) ==
    /\ DOMAIN data = { "tvl", "protocol_tvl", "protocol_age_days",
                       "team_doxxed", "audits", "oracle_provider" }
    /\ data.tvl > 10000000
    /\ data.protocol_tvl > 1000000000
    /\ data.protocol_age_days > 365
    /\ data.team_doxxed
    /\ data.oracle_provider = "chainlink"
    /\ Len(data.audits) = 1
    /\ DOMAIN data.audits[1] = { "firm", "date" }
    /\ Lower(data.audits[1].firm) \in DOMAIN InitAuditFirms
    /\ now - data.audits[1].date \in 0..90

\* C8: every blue-chip record yields a tier in {MINIMAL, LOW} and a maximum
\* allocation of at least 25.
C8_BlueChipIsLowRisk ==
    (Assessed /\ C8_BlueChip(request.arg)) =>
        /\ response.risk_tier \in { "MINIMAL", "LOW" }
        /\ response.max_allocation_percentage >= 25

\* the least reputable listed firm, its audit 90 days old
C8_Witness ==
    /\ Assessed
    /\ C8_BlueChip(request.arg)
    /\ request.arg.audits[1] = [ firm |-> "hacken", date |-> -90 ]
    /\ response.risk_tier = "LOW"

\* C9 as stated: every category's confidence is the same for any two input
\* records (here: the same as for the record with no field).
C9_ConfidenceFixed ==
    Assessed =>
        \A i \in 1..Len(Categories) :
            response.risk_metrics[Categories[i]].confidence
                = AssessAll(Empty)[i].confidence

\* C9 as amended: the confidence is one fixed constant for smart-contract,
\* liquidity, protocol, market, regulatory and oracle; impermanent-loss has
\* 0.8 for an LP position and 1.0 otherwise, bridge 0.75 when a bridge is
\* used and 1.0 otherwise.
C9_ConfidenceFixedWhereApplicable ==
    Assessed =>
        /\ \A i \in 1..Len(Categories) :
            Categories[i] \notin { "impermanent_loss", "bridge" } =>
                response.risk_metrics[Categories[i]].confidence
                    = AssessAll(Empty)[i].confidence
        /\ response.risk_metrics["impermanent_loss"].confidence
            = IF Get(request.arg, "is_lp_position", FALSE) THEN 16 ELSE 20
        /\ response.risk_metrics["bridge"].confidence
            = IF Get(request.arg, "uses_bridge", FALSE) THEN 15 ELSE 20

C9_Witness ==
    /\ Assessed
    /\ Get(request.arg, "is_lp_position", FALSE)
    /\ response.risk_metrics["impermanent_loss"].confidence = 16
    /\ AssessAll(Empty)[2].confidence = 20

\* C10: whenever is_lp_position is false or absent the impermanent-loss
\* metric is score 0, confidence 1.0, mitigation ["Not an LP position"], and
\* whenever uses_bridge is false or absent the bridge metric is score 0,
\* confidence 1.0 with a single mitigation entry, whatever the other fields.
C10_NotApplicable ==
    Assessed =>
        /\ ~Get(request.arg, "is_lp_position", FALSE) =>
            response.risk_metrics["impermanent_loss"]
                = RiskMetrics("impermanent_loss", 0, 20,
                              << "Not an LP position" >>)
        /\ ~Get(request.arg, "uses_bridge", FALSE) =>
            LET metric == response.risk_metrics["bridge"]
            IN  /\ metric.score = 0
                /\ metric.confidence = 20
                /\ Len(metric.mitigation) = 1

\* uses_bridge present and false in a record whose other bridge fields would
\* score 10, next to a high-risk LP position
C10_Witness ==
    /\ Assessed
    /\ "uses_bridge" \in DOMAIN request.arg
    /\ ~request.arg["uses_bridge"]
    /\ Get(request.arg, "bridge_hacked_before", FALSE)
    /\ Get(request.arg, "is_lp_position", FALSE)
    /\ response.risk_metrics["bridge"].score = 0
    /\ response.risk_metrics["impermanent_loss"].score = Pts(10)

\* the list without its i-th metric
Without(risk_metrics, i) ==
    [ j \in 1..(Len(risk_metrics) - 1) |->
        IF j < i THEN risk_metrics[j] ELSE risk_metrics[j + 1] ]

\* the shape of a not-applicable metric
NotApplicable(metric) == metric.score = 0 /\ metric.confidence = 20

\* the overall score of the list lies at or below that of the list without
\* its i-th, not-applicable, metric: the numerator n is the same and not
\* negative, while the denominator has grown by the full weight (times the
\* confidence 1.0) of the category; a rest without weight scores the neutral 5
C11_Dilutes(overall_score, risk_metrics, i) ==
    LET rest == Without(risk_metrics, i)
        left_out == calculate_overall_risk(rest)
        full_weight == 20 * C3_Weights[risk_metrics[i].category]
    IN  IF \E j \in 1..Len(rest) : rest[j].confidence > 0
        THEN /\ overall_score.n = left_out.n
             /\ overall_score.n >= 0
             /\ left_out.d > 0
             /\ overall_score.d = left_out.d + full_weight
        ELSE /\ overall_score.n = 0
             /\ overall_score.d = full_weight
             /\ ScoreEq(left_out, 5)

\* C11: a not-applicable metric (score 0, confidence 1.0) takes part in the
\* aggregation with its full weight in the denominator: when no score is
\* negative, the overall score with it is less than or equal to the overall
\* score computed with that category left out of both sums.
C11_NotApplicableTakesPart ==
    /\ Returned("calculate_overall_risk") =>
        \A i \in 1..Len(request.arg) :
            (/\ NotApplicable(request.arg[i])
             /\ \A j \in 1..Len(request.arg) : request.arg[j].score >= 0) =>
                C11_Dilutes(response, request.arg, i)
    /\ Assessed =>
        LET risk_metrics == AssessAll(request.arg)
        IN  \A i \in { 2, 8 } :
                (/\ NotApplicable(risk_metrics[i])
                 /\ risk_metrics[i].mitigation
                        \in { << "Not an LP position" >>,
                              << "No bridge required" >> }
                 /\ \A j \in 1..Len(risk_metrics) :
                        risk_metrics[j].score >= 0) =>
                    C11_Dilutes(response.overall_score, risk_metrics, i)

\* every category at 10 but the not-applicable impermanent-loss one (the
\* bridge metric at confidence 1.0): 10 * 0.675 / 0.875 with it, 10 without
C11_Witness ==
    /\ Returned("calculate_overall_risk")
    /\ \A i \in 1..Len(request.arg) :
        IF i = 2 THEN NotApplicable(request.arg[i])
        ELSE /\ request.arg[i].score = Pts(10)
             /\ request.arg[i].confidence
                    = IF i = 8 THEN 20 ELSE OwnConfidence[Categories[i]]
    /\ response = Score(2700 * OU, 350)
    /\ calculate_overall_risk(Without(request.arg, 2)) = Score(2700 * OU, 270)

\* the record with one field set
With(data, field, value) == (field :> value) @@ data

\* the record without one field
Absent(data, field) == [ k \in DOMAIN data \ { field } |-> data[k] ]

\* C13: with protocol_tvl, protocol_age_days and team_doxxed held fixed, the
\* protocol score never decreases as previous_exploits increases (an absent
\* count is 0): the score of the record assessed is at most the score of the
\* same record with one exploit more, and at least that of the record with
\* no exploit.
C13_ExploitsMonotone ==
    Assessed =>
        LET previous_exploits == Get(request.arg, "previous_exploits", 0)
            score == response.risk_metrics["protocol"].score
            more == With(request.arg, "previous_exploits",
                         previous_exploits + 1)
            none == With(request.arg, "previous_exploits", 0)
        IN  /\ score <= assess_protocol_risk(more).score
            /\ assess_protocol_risk(none).score <= score
            /\ assess_protocol_risk(Absent(request.arg, "previous_exploits"))
                = assess_protocol_risk(none)

\* from no exploit to one the exploit risk goes from 0 to 7, the score up by
\* 7 * 0.2 points
C13_Witness ==
    /\ Assessed
    /\ "previous_exploits" \in DOMAIN request.arg
    /\ request.arg["previous_exploits"] = 0
    /\ assess_protocol_risk(With(request.arg, "previous_exploits", 1)).score
        = response.risk_metrics["protocol"].score + Mul10(Pts(7), 2)

\* C14: assess_opportunity is total over missing fields: for every record
\* in which any subset of the optional fields is absent (the empty record and
\* audit entries lacking a field included) it returns a complete result with
\* all 8 metrics and never raises.
C14_TotalOverMissingFields ==
    Returned("assess_opportunity") =>
        /\ ~response.raised
        /\ DOMAIN response.risk_metrics = CategorySet

\* the metrics of a result, in assessor order
MetricsOf(result) ==
    [ i \in 1..Len(Categories) |-> result.risk_metrics[Categories[i]] ]

\* the place (from 0) of the i-th metric among the metrics sorted by
\* descending score, ties keeping assessor order
C16_Place(metrics, i) ==
    Cardinality({ j \in 1..Len(metrics) :
                    \/ metrics[j].score > metrics[i].score
                    \/ metrics[j].score = metrics[i].score /\ j < i })

\* the lines the metric at a place contributes: its first two mitigation
\* strings, or those that exist, when its score is above 6
C16_Lines(metrics, place) ==
    LET i == CHOOSE j \in 1..Len(metrics) : C16_Place(metrics, j) = place
        mitigation == metrics[i].mitigation
    IN  IF metrics[i].score > Pts(6)
        THEN IF Len(mitigation) <= 2 THEN mitigation
             ELSE << mitigation[1], mitigation[2] >>
        ELSE << >>

C16_MitigationLines(metrics) ==
    C16_Lines(metrics, 0) \o C16_Lines(metrics, 1) \o C16_Lines(metrics, 2)

\* the portfolio-sizing line of an allocation
C17_Sizing(max_allocation) ==
    "[$] Maximum allocation: " \o ToString(max_allocation) \o "% of portfolio"

\* C16: the recommendations start with the mitigation lines chosen so: the 8
\* metrics are sorted by descending score (ties keeping assessor order), and
\* each of the first 3 whose score is strictly greater than 6 contributes
\* its first two mitigation strings (or the single / zero strings that
\* exist), in that order; no other metric contributes a line (the next line is
\* the portfolio-sizing one).
C16_TopMitigations ==
    Assessed =>
        LET lines == C16_MitigationLines(MetricsOf(response))
            recommendations == response.recommendations
        IN  /\ Len(recommendations) > Len(lines)
            /\ SubSeq(recommendations, 1, Len(lines)) = lines
            /\ recommendations[Len(lines) + 1]
                \in { C17_Sizing(a) : a \in { 40, 25, 15, 8, 3 } }

\* smart-contract and bridge tie at 10, ahead of oracle at 9: the
\* smart-contract lines come first, the bridge's follow
C16_Witness ==
    /\ Assessed
    /\ response.risk_metrics["smart_contract"].score = Pts(10)
    /\ response.risk_metrics["bridge"].score = Pts(10)
    /\ \A c \in CategorySet \ { "smart_contract", "bridge" } :
        response.risk_metrics[c].score < Pts(10)
    /\ Len(response.recommendations) >= 4
    /\ response.recommendations[1]
        = response.risk_metrics["smart_contract"].mitigation[1]
    /\ response.recommendations[3]
        = response.risk_metrics["bridge"].mitigation[1]

\* C17: after the mitigation lines the recommendations hold, in this order:
\* exactly one portfolio-sizing line stating the result's
\* max_allocation_percentage; then at most one timing caution (the wait
\* caution when overall_score > 7, otherwise the gradual-entry caution when
\* the supplied apy > 100, never both); then the hedging suggestion when and
\* only when the impermanent-loss score is above 6.
C17_ClosingLines ==
    Assessed =>
        LET lines == C16_MitigationLines(MetricsOf(response))
            recommendations == response.recommendations
            closing == SubSeq(recommendations, Len(lines) + 1,
                              Len(recommendations))
            wait == "[time] Consider waiting for risk factors to improve"
            gradual == "[time] Enter gradually to avoid FOMO"
            hedge == "[shield] Consider IL hedging strategies or insurance"
            timing == IF ScoreGt(response.overall_score, 7) THEN << wait >>
                      ELSE IF Get(request.arg, "apy", 0) > 100
                      THEN << gradual >>
                      ELSE << >>
            hedging == IF response.risk_metrics["impermanent_loss"].score
                            > Pts(6)
                       THEN << hedge >>
                       ELSE << >>
        IN  /\ closing
                = << C17_Sizing(response.max_allocation_percentage) >>
                  \o timing \o hedging
            /\ Cardinality({ i \in 1..Len(recommendations) :
                    recommendations[i]
                        \in { C17_Sizing(a) : a \in { 40, 25, 15, 8, 3 } } })
                = 1
            /\ Cardinality({ i \in 1..Len(recommendations) :
                    recommendations[i] \in { wait, gradual } }) <= 1

\* an overall score above 7 with an apy above 100 and a high
\* impermanent-loss score: sizing, the wait caution alone, hedging
C17_Witness ==
    /\ Assessed
    /\ ScoreGt(response.overall_score, 7)
    /\ Get(request.arg, "apy", 0) > 100
    /\ response.risk_metrics["impermanent_loss"].score > Pts(6)
    /\ LET n == Len(response.recommendations)
       IN  /\ n >= 3
           /\ response.recommendations[n - 2] = C17_Sizing(8)
           /\ response.recommendations[n - 1]
                = "[time] Consider waiting for risk factors to improve"
           /\ response.recommendations[n]
                = "[shield] Consider IL hedging strategies or insurance"

\* the smart-contract score of an upgradeable contract carries the penalty:
\* it is the score of the same record taken as non-upgradeable, plus 2,
\* clamped to 10
C19_Penalised(data, score) ==
    score = Min(Pts(10),
                assess_smart_contract_risk(Absent(data, "upgradeable")).score
                + Pts(2))

\* it carries no penalty
C19_NotPenalised(data, score) ==
    score = assess_smart_contract_risk(Absent(data, "upgradeable")).score

\* upgradeable contracts are penalised when their timelock_days (0 when
\* absent) is below the limit and not penalised otherwise
C19_PenaltyBelow(limit) ==
    (Assessed /\ Get(request.arg, "upgradeable", FALSE)) =>
        LET score == response.risk_metrics["smart_contract"].score
        IN  IF Get(request.arg, "timelock_days", 0) < limit
            THEN C19_Penalised(request.arg, score)
            ELSE C19_NotPenalised(request.arg, score)

\* C19 as stated: an upgradeable contract receives the +2 penalty (clamped
\* to 10) exactly when its timelock_days is less than 2; with
\* timelock_days >= 2 (in particular exactly 2) it receives no penalty.
C19_PenaltyBelowTwo == C19_PenaltyBelow(2)

\* C19 as amended: an upgradeable contract receives the +2 penalty (clamped
\* to 10) exactly when its timelock_days is at most 2 (in particular exactly
\* 2); with timelock_days > 2 it receives no penalty.
C19_PenaltyUpToTwo == C19_PenaltyBelow(3)

\* a two-day timelock, penalised, the score staying below the clamp
C19_Witness ==
    /\ Assessed
    /\ Get(request.arg, "upgradeable", FALSE)
    /\ Get(request.arg, "timelock_days", 0) = 2
    /\ response.risk_metrics["smart_contract"].score < Pts(10)
    /\ C19_Penalised(request.arg,
                     response.risk_metrics["smart_contract"].score)
    /\ ~C19_NotPenalised(request.arg,
                         response.risk_metrics["smart_contract"].score)

\* the impermanent-loss score of every stable-pair LP position is at most
\* the plain limit, or the concentrated limit when concentrated_liquidity
\* is set (limits in points)
C20_StableCap(plain, concentrated) ==
    (/\ Assessed
     /\ Get(request.arg, "is_lp_position", FALSE)
     /\ Get(request.arg, "is_stable_pair", FALSE)) =>
        response.risk_metrics["impermanent_loss"].score
            <= IF Get(request.arg, "concentrated_liquidity", FALSE)
               THEN Pts(concentrated)
               ELSE Pts(plain)

\* C20 as stated: for every LP position with is_stable_pair true the
\* impermanent-loss score is at most 2, whatever the values of
\* il_protection, concentrated_liquidity, the volatilities and the
\* correlation.
C20_StableAtMostTwo == C20_StableCap(2, 2)

\* C20 as amended: for every LP position with is_stable_pair true the
\* impermanent-loss score is at most 2 when concentrated_liquidity is false
\* or absent and at most 3 when it is true, whatever the values of
\* il_protection, the volatilities and the correlation.
C20_StableAtMostTwoOrThree == C20_StableCap(2, 3)

\* a concentrated stable pair at the cap of 2, amplified to 3
C20_Witness ==
    /\ Assessed
    /\ Get(request.arg, "is_lp_position", FALSE)
    /\ Get(request.arg, "is_stable_pair", FALSE)
    /\ Get(request.arg, "concentrated_liquidity", FALSE)
    /\ response.risk_metrics["impermanent_loss"].score = Pts(3)

\* C12: two calls of assess_opportunity with an identical input record
\* return identical output (overall_score, risk_tier, metrics,
\* recommendations in the same order, suitable_for,
\* max_allocation_percentage), for every input record, those that list dated
\* audits included.
C12_Idempotent ==
    Returned("assess_opportunity") =>
        \A i \in 1..Len(history) :
            history[i].request = request => history[i].response = response

C18_Completed ==
    { history[i] : i \in 1..Len(history) }
    \cup (IF pc = "returned"
          THEN { [ request |-> request, response |-> response ] } ELSE { })
    \cup (IF other.pc = "returned"
          THEN { [ request |-> other.request, response |-> other.response ] }
          ELSE { })

C21_LockContribution ==
    response.risk_metrics["liquidity"].score
        - assess_liquidity_risk(Absent(request.arg, "lock_period_days")).score

\* min(10, lock_days / 10), in score units
C21_Tenth(lock_days) == Min(Pts(10), lock_days * (SU \div 10))

\* the lock-period component enters the liquidity score with weight 0.1 and
\* equals min(10, lock_days / 10) for every lock period of 0 days or more: 20
\* days contribute 2, 30 days contribute 3
C21_LockComponentAlways ==
    Assessed =>
        LET lock_days == Get(request.arg, "lock_period_days", 0)
        IN  lock_days >= 0 =>
                /\ C21_LockContribution = Mul10(C21_Tenth(lock_days), 1)
                /\ lock_days = 20 => C21_LockContribution = Mul10(Pts(2), 1)
                /\ lock_days = 30 => C21_LockContribution = Mul10(Pts(3), 1)

\* C21: the lock-period component enters the liquidity score with weight 0.1
\* and equals min(10, lock_days / 10) when lock_period_days is more than 30,
\* and 0 when it is 30 or less (absent counts as 0): 20 and 30 days
\* contribute 0, 31 days contribute 3.1, 100 days and more contribute 10.
C21_LockComponentAboveThirty ==
    Assessed =>
        LET lock_days == Get(request.arg, "lock_period_days", 0)
        IN  /\ lock_days > 30 =>
                C21_LockContribution = Mul10(C21_Tenth(lock_days), 1)
            /\ lock_days <= 30 => C21_LockContribution = 0
            /\ lock_days = 31 => C21_LockContribution = Pts(31) \div 100
            /\ lock_days >= 100 => C21_LockContribution = Pts(1)

\* a lock of 31 days, the first to count: 3.1 * 0.1 points
C21_Witness ==
    /\ Assessed
    /\ "lock_period_days" \in DOMAIN request.arg
    /\ request.arg["lock_period_days"] = 31
    /\ C21_LockContribution = Pts(31) \div 100

\* what the exploit count adds to the protocol score: the score of the
\* record assessed less the score of the same record without the count
C22_ExploitContribution ==
    response.risk_metrics["protocol"].score
        - assess_protocol_risk(Absent(request.arg, "previous_exploits")).score

\* min(10, 5 + count * 2) weighted 0.2, in score units
C22_Weighted(count) == Mul10(Pts(Min(10, 5 + count * 2)), 2)

\* the prior-exploit component enters the protocol score with weight 0.2 and
\* equals min(10, 5 + count * 2) for every count of 0 or more, 0 included
C22_ExploitComponentAlways ==
    Assessed =>
        LET count == Get(request.arg, "previous_exploits", 0)
        IN  count >= 0 => C22_ExploitContribution = C22_Weighted(count)

\* C22: the prior-exploit component enters the protocol score with weight 0.2
\* and equals min(10, 5 + count * 2) for every previous_exploits count of 1
\* or more, and 0 for a count of 0 (an absent count is 0).
C22_ExploitComponentFromOne ==
    Assessed =>
        LET count == Get(request.arg, "previous_exploits", 0)
        IN  /\ count > 0 => C22_ExploitContribution = C22_Weighted(count)
            /\ count = 0 => C22_ExploitContribution = 0

\* three exploits: 5 + 6 is capped at 10, which adds 2 points
C22_Witness ==
    /\ Assessed
    /\ "previous_exploits" \in DOMAIN request.arg
    /\ request.arg["previous_exploits"] = 3
    /\ C22_ExploitContribution = Pts(2)

\* the dated entries of listed firms among the audits of a record
C23_ListedAudits(data) ==
    { audit \in Range(Get(data, "audits", << >>)) :
        ListedFirm(audit) /\ "date" \in DOMAIN audit }

\* C23: for every audit entry of a listed firm, whatever its date relative
\* to the current time, the audit-age decay factor lies in [0.5, 1] (365 to
\* 730 in 1/730), so the audit component (1 - reputation * factor) * 10 lies
\* in [1, 6.25] and the smart-contract score is never negative.
C23_AgeFactorBounded ==
    Assessed =>
        /\ \A audit \in C23_ListedAudits(request.arg) :
            /\ 365 <= AgeFactor(now - audit.date)
            /\ AgeFactor(now - audit.date) <= 730
            /\ Pts(1) <= AuditScore(audit)
            /\ AuditScore(audit) <= Pts(25) \div 4
        /\ response.risk_metrics["smart_contract"].score >= 0

====
